---- MODULE Spec2Model ----
(***************************************************************************)
(* State-machine model of the Socket.IO chat relay src/chat-server.py.     *)
(*                                                                         *)
(* The module-level containers of the program (clients, user_rooms,        *)
(* sid_to_identity, character_to_sid) are the variables of the same name.  *)
(* Python dicts are functions whose DOMAIN is the set of keys present.     *)
(* The Socket.IO server object the handlers call into is represented by    *)
(* sio_sids (the connected sids of namespace "/") and sio_rooms (the       *)
(* members of each named room).                                            *)
(*                                                                         *)
(* Strings are sequences of tokens; the token SP is one whitespace         *)
(* character, every other token a run of non-whitespace characters.        *)
(*                                                                         *)
(* Handlers are coroutines on one event loop: a handler runs without       *)
(* preemption up to an await that really suspends.  The only await that    *)
(* is followed by a mutation is `await sio.disconnect(old_sid)` in         *)
(* register (line 94), so register is two steps (register_evict,           *)
(* register_resume) whenever it evicts; every other handler is one step.   *)
(* Session ids are fresh: the transport never hands out a sid twice.       *)
(***************************************************************************)
EXTENDS Integers, Sequences, FiniteSets, TLC

\* ---------------------------------------------------------------- bounds
MaxSessions == 3

\* ------------------------------------------------------------- constants
SP == "sp"
NoSid == 0
SIDS == 1..MaxSessions
Rooms == {"r1", "r2"}

server_chat_event == "server"
global_chat_event == "globalmsg"
private_chat_event == "privatemsg"
local_chat_event == "localmsg"

EmptyStr == << >>
Unknown == <<"Unknown">>

\* Payloads a client may send with the register event.
FullPayload(p, c, n) == [player_id |-> p, character_id |-> c, character_name |-> n]

RegPayloads ==
    { FullPayload(<<"p1">>, <<SP, "c1", SP>>, <<"Nyx">>),
      FullPayload(<<SP, "p1">>, <<"c2">>, <<"Nyx2", SP>>),
      FullPayload(<<"p1">>, <<SP>>, <<"Nyx">>),
      FullPayload(<<"p1">>, <<"c2">>, EmptyStr),
      [character_id |-> <<"c1">>, character_name |-> <<"Nyx2">>] }

VARIABLES
    clients,            \* list of connected sids                     (line 12)
    user_rooms,         \* dict sid -> room                           (line 13)
    sid_to_identity,    \* dict sid -> identity record                (line 15)
    character_to_sid,   \* dict character_id -> sid                   (line 16)
    sio_sids,           \* sids connected to the Socket.IO server
    sio_rooms,          \* Socket.IO room -> set of member sids
    pending,            \* dict sid -> register handler suspended at its await
    nextSid,            \* next fresh session id the transport hands out
    fault,              \* exception raised by the last handler, or "none"
    lastEmit,           \* the sio.emit of the last handler step, NoEmit if none
    printed,            \* the last line a chat-server handler printed
    \* src/master-server.py
    game_servers,       \* dict sid -> server record, in insertion order (line 10)
    master_sids,        \* sids connected to the master server's Socket.IO server
    master_next,        \* next fresh session id of the master server's transport
    master_emit,        \* the sio.emit of the last master-server handler, if any
    master_fault,       \* exception raised by the last master-server handler
    master_printed,     \* the last line a master-server handler printed
    \* src/chat.py
    relay_clients,      \* list of connected sids                     (line 12)
    sid_to_user,        \* dict sid -> user name                      (line 16)
    user_to_sid,        \* dict user name -> sid                      (line 17)
    relay_sids,         \* sids connected to the relay's Socket.IO server
    relay_next,         \* next fresh session id of the relay's transport
    relay_emit,         \* the sio.emit of the last relay handler
    \* chat-server.py: messages in flight
    inbox,              \* sid -> messages the client has sent, not yet handled
    outbox,             \* sid -> messages emitted to that connection, in order
    msgSeq,             \* number of messages the clients have sent so far
    \* src/WebsocketChat.py
    active_connections, \* dict username -> websocket                 (line 7)
    ws_open,            \* websockets that are open
    ws_username,        \* websocket -> the username of its path
    ws_next,            \* next fresh websocket the server accepts
    ws_fault,           \* exception that ended the last handler step, or "none"
    ws_sent,            \* the send_text of the last handler step
    \* src/profiles_server.py: tables of the relational store
    characters,         \* character id -> player_id of its owner
    character_friends,  \* set of << character_a_id, character_b_id >>
    character_friend_requests,  \* set of << from_character_id, to_character_id >>
    character_blocks,   \* set of << blocker_character_id, blocked_character_id >>
    profiles_response   \* detail of the last response, "ok" for a 200

chat_vars == << clients, user_rooms, sid_to_identity, character_to_sid, sio_sids,
                sio_rooms, pending, nextSid, fault, lastEmit, printed >>

master_vars == << game_servers, master_sids, master_next, master_emit, master_fault,
                  master_printed >>

relay_vars == << relay_clients, sid_to_user, user_to_sid, relay_sids, relay_next,
                 relay_emit >>

order_vars == << inbox, outbox, msgSeq >>

ws_vars == << active_connections, ws_open, ws_username, ws_next, ws_fault, ws_sent >>

profiles_vars == << characters, character_friends, character_friend_requests,
                    character_blocks, profiles_response >>

\* What the handlers of one program leave alone: the other programs' state.
chat_frame == << master_vars, relay_vars, order_vars, ws_vars, profiles_vars >>
master_frame == << chat_vars, relay_vars, order_vars, ws_vars, profiles_vars >>
relay_frame == << chat_vars, master_vars, order_vars, ws_vars, profiles_vars >>
ws_frame == << chat_vars, master_vars, relay_vars, order_vars, profiles_vars >>
profiles_frame == << chat_vars, master_vars, relay_vars, order_vars, ws_vars >>

vars == << chat_vars, master_vars, relay_vars, order_vars, ws_vars, profiles_vars >>

\* ------------------------------------------------------ Python primitives
EmptyDict == << >>

dict_set(d, k, v) == [x \in (DOMAIN d) \cup {k} |-> IF x = k THEN v ELSE d[x]]

dict_pop(d, k) == [x \in (DOMAIN d) \ {k} |-> d[x]]

\* data.get(key) or ""
get_or_empty(data, key) == IF key \in DOMAIN data THEN data[key] ELSE EmptyStr

RECURSIVE lstrip(_)
lstrip(s) == IF s # << >> /\ Head(s) = SP THEN lstrip(Tail(s)) ELSE s

RECURSIVE rstrip(_)
rstrip(s) ==
    IF s # << >> /\ s[Len(s)] = SP THEN rstrip(SubSeq(s, 1, Len(s) - 1)) ELSE s

\* A strip that trims nothing.
strip_nothing(s) == s

\* str.strip()
strip(s) == rstrip(lstrip(s))

InList(x, l) == \E i \in 1..Len(l) : l[i] = x

RECURSIVE list_remove(_, _)
\* list.remove(x): drops the first occurrence; ValueError when absent is the
\* caller's concern.
list_remove(l, x) ==
    IF l = << >> THEN << >>
    ELSE IF Head(l) = x THEN Tail(l)
    ELSE <<Head(l)>> \o list_remove(Tail(l), x)

\* ------------------------------------------------------------ emit targets
\* sio.emit(event, data): every connected sid; sio.emit(..., room=r): members
\* of r; sio.emit(..., room=sid): that one connection, when connected.
EmitAll == sio_sids
EmitRoom(r) == sio_rooms[r]
EmitSid(sid) == {sid} \cap sio_sids

NoSender == [player_id |-> EmptyStr, character_id |-> EmptyStr, character_name |-> EmptyStr]

Emit(ev, sender, users, err, to) ==
    [event |-> ev, sender |-> sender, users |-> users, error |-> err, to |-> to]

NoEmit == Emit("none", NoSender, 0, "none", {})

\* ---------------------------------------------------------------- helpers
make_sender_payload(sid) ==
    IF sid \in DOMAIN sid_to_identity
    THEN sid_to_identity[sid]
    ELSE [player_id |-> EmptyStr, character_id |-> EmptyStr, character_name |-> Unknown]

\* ------------------------------------------------------------------- Init
\* src/master-server.py, lines 5-10: no connection, no registered server.
MasterInit ==
    /\ game_servers = << >>
    /\ master_sids = {}
    /\ master_next = 1
    /\ master_emit = [event |-> "none", servers |-> << >>, to |-> {}]
    /\ master_fault = "none"
    /\ master_printed = "nothing"

\* src/chat.py, lines 12-17
RelayInit ==
    /\ relay_clients = << >>
    /\ sid_to_user = EmptyDict
    /\ user_to_sid = EmptyDict
    /\ relay_sids = {}
    /\ relay_next = 1
    /\ relay_emit = [event |-> "none", from |-> "None", notice |-> FALSE, to |-> {}]

\* src/WebsocketChat.py, line 7
WsInit ==
    /\ active_connections = EmptyDict
    /\ ws_open = {}
    /\ ws_username = EmptyDict
    /\ ws_next = 1
    /\ ws_fault = "none"
    /\ ws_sent = [kind |-> "none", to |-> NoSid]

\* src/profiles_server.py: the store before any request.
ProfilesInit ==
    /\ characters = EmptyDict
    /\ character_friends = {}
    /\ character_friend_requests = {}
    /\ character_blocks = {}
    /\ profiles_response = "none"

Init ==
    /\ clients = << >>
    /\ user_rooms = EmptyDict
    /\ sid_to_identity = EmptyDict
    /\ character_to_sid = EmptyDict
    /\ sio_sids = {}
    /\ sio_rooms = [r \in Rooms |-> {}]
    /\ pending = EmptyDict
    /\ nextSid = 1
    /\ fault = "none"
    /\ lastEmit = NoEmit
    /\ printed = "nothing"
    /\ inbox = [s \in SIDS |-> << >>]
    /\ outbox = [s \in SIDS |-> << >>]
    /\ msgSeq = 0
    /\ MasterInit
    /\ RelayInit
    /\ WsInit
    /\ ProfilesInit

\* ---------------------------------------------------------------- connect
\* lines 41-47
connect(sid) ==
    /\ nextSid <= MaxSessions
    /\ sid = nextSid
    /\ nextSid' = nextSid + 1
    /\ sio_sids' = sio_sids \cup {sid}
    /\ clients' = Append(clients, sid)
    /\ lastEmit' = Emit(server_chat_event, NoSender, Len(clients'), "none",
                        sio_sids')
    /\ fault' = "none"
    /\ UNCHANGED << user_rooms, sid_to_identity, character_to_sid, sio_rooms, pending >>
    /\ printed' = "connected"
    /\ UNCHANGED chat_frame

\* ------------------------------------------------------------- disconnect
\* A disconnect that removes without the membership test of line 53:
\* list.remove raises ValueError when sid is absent.
disconnect_remove_unguarded(cl, sid) ==
    [list |-> list_remove(cl, sid),
     fault |-> IF InList(sid, cl) THEN "none" ELSE "ValueError"]

\* A disconnect that forgets to remove the sid from clients.
disconnect_remove_forgotten(cl, sid) == [list |-> cl, fault |-> "none"]

\* lines 53-54: if sid in clients: clients.remove(sid)
disconnect_remove(cl, sid) ==
    IF InList(sid, cl)
    THEN [list |-> list_remove(cl, sid), fault |-> "none"]
    ELSE [list |-> cl, fault |-> "none"]

\* lines 56-58: identity = sid_to_identity.pop(sid, None); if identity:
\* character_to_sid.pop(identity.get("character_id"), None)
disconnect_identity(s2i, c2s, sid) ==
    IF sid \in DOMAIN s2i
    THEN [s2i |-> dict_pop(s2i, sid), c2s |-> dict_pop(c2s, s2i[sid].character_id)]
    ELSE [s2i |-> s2i, c2s |-> c2s]

\* lines 51-65: the handler's effect on the program's own containers
\* (user_rooms is not touched).
disconnect_handler(st, sid) ==
    LET rm == disconnect_remove(st.clients, sid)
        id == disconnect_identity(st.sid_to_identity, st.character_to_sid, sid)
    IN  [clients |-> rm.list,
         sid_to_identity |-> id.s2i,
         character_to_sid |-> id.c2s,
         fault |-> rm.fault]

CurState ==
    [clients |-> clients, sid_to_identity |-> sid_to_identity,
     character_to_sid |-> character_to_sid, fault |-> fault]

\* The Socket.IO server drops a disconnected sid from every room once the
\* application's disconnect handler has run.
sio_leave_all(sid) == [r \in Rooms |-> sio_rooms[r] \ {sid}]

\* The disconnect handler run for `sid`, with the server's own cleanup;
\* shared by a transport disconnect and by sio.disconnect(old_sid), line 94.
run_disconnect(sid) ==
    LET res == disconnect_handler(CurState, sid)
    IN  /\ clients' = res.clients
        /\ sid_to_identity' = res.sid_to_identity
        /\ character_to_sid' = res.character_to_sid
        /\ fault' = res.fault
        /\ lastEmit' = Emit(server_chat_event, NoSender, Len(res.clients), "none",
                            EmitAll)
        /\ sio_sids' = sio_sids \ {sid}
        /\ sio_rooms' = sio_leave_all(sid)
        /\ printed' = "disconnected"

\* The transport reports that connection `sid` has closed.
disconnect(sid) ==
    /\ sid \in sio_sids
    /\ run_disconnect(sid)
    /\ UNCHANGED << user_rooms, pending, nextSid >>
    /\ UNCHANGED chat_frame

\* --------------------------------------------------------------- register
\* lines 76-78 and 98-102: the trimmed fields of the payload.
register_identity(data) ==
    [player_id |-> strip(get_or_empty(data, "player_id")),
     character_id |-> strip(get_or_empty(data, "character_id")),
     character_name |-> strip(get_or_empty(data, "character_name"))]

\* A validation that does not require player_id.
register_invalid_without_player_id(identity) ==
    \/ identity.character_id = EmptyStr
    \/ identity.character_name = EmptyStr

\* line 80: not player_id or not character_id or not character_name
register_invalid(identity) ==
    \/ identity.player_id = EmptyStr
    \/ identity.character_id = EmptyStr
    \/ identity.character_name = EmptyStr

\* line 90: character_to_sid.get(character_id)
register_old_sid(c2s, character_id) ==
    IF character_id \in DOMAIN c2s THEN c2s[character_id] ELSE NoSid

\* line 91: if old_sid and old_sid != sid
register_must_evict(old_sid, sid) == old_sid # NoSid /\ old_sid # sid

\* `holder` is a live session registered under character_id `cid`.
Holds(holder, cid) ==
    /\ InList(holder, clients)
    /\ holder \in DOMAIN sid_to_identity
    /\ sid_to_identity[holder].character_id = cid
    /\ cid \in DOMAIN character_to_sid
    /\ character_to_sid[cid] = holder

\* An install that keeps the Identity a session already has.
register_install_keep_first(s2i, c2s, sid, identity) ==
    IF sid \in DOMAIN s2i
    THEN [s2i |-> s2i, c2s |-> c2s]
    ELSE [s2i |-> dict_set(s2i, sid, identity),
          c2s |-> dict_set(c2s, identity.character_id, sid)]

\* lines 103-104 applied to dicts s2i and c2s.
register_install(s2i, c2s, sid, identity) ==
    [s2i |-> dict_set(s2i, sid, identity),
     c2s |-> dict_set(c2s, identity.character_id, sid)]

\* lines 80-87: validation failure, reported to the sender only.
register_reject(sid, data) ==
    /\ sid \in sio_sids
    /\ sid \notin DOMAIN pending
    /\ register_invalid(register_identity(data))
    /\ lastEmit' = Emit(server_chat_event, NoSender, 0, "register missing", EmitSid(sid))
    /\ fault' = "none"
    /\ UNCHANGED << clients, user_rooms, sid_to_identity, character_to_sid,
                    sio_sids, sio_rooms, pending, nextSid >>
    /\ printed' = "register_failed"
    /\ UNCHANGED chat_frame

\* lines 89-106 when the handler does not suspend: no other holder (line 91
\* false), or sio.disconnect(old_sid) returns or raises at once.  `raised`
\* is the outcome of sio.disconnect for a connected old_sid: the exception
\* is swallowed by lines 95-96 and the old session's handler has not run.
register_direct(sid, data, raised) ==
    LET identity == register_identity(data)
        old_sid == register_old_sid(character_to_sid, identity.character_id)
        inst == register_install(sid_to_identity, character_to_sid, sid, identity)
    IN  /\ sid \in sio_sids
        /\ sid \notin DOMAIN pending
        /\ ~register_invalid(identity)
        /\ IF register_must_evict(old_sid, sid) /\ old_sid \in sio_sids
           THEN raised
           ELSE ~raised
        /\ sid_to_identity' = inst.s2i
        /\ character_to_sid' = inst.c2s
        /\ lastEmit' = NoEmit
        /\ fault' = "none"
        /\ UNCHANGED << clients, user_rooms, sio_sids, sio_rooms, pending, nextSid >>
        /\ printed' = "registered"
        /\ UNCHANGED chat_frame

\* Some live session other than sid is registered under character_id cid.
OtherLiveHolder(cl, s2i, sid, cid) ==
    \E t \in (DOMAIN s2i) \ {sid} : InList(t, cl) /\ s2i[t].character_id = cid

\* lines 89-96 when old_sid is another connected session: sio.disconnect
\* runs old_sid's disconnect handler, whose broadcast (line 64) is awaited,
\* so this handler is suspended before it installs its mapping.  The
\* suspended handler keeps its locals identity and old_sid; `held` and
\* `exclusive` record what was true when it suspended: old_sid was the live
\* holder of the character_id, and the eviction left no live holder of it.
register_evict(sid, data) ==
    LET identity == register_identity(data)
        old_sid == register_old_sid(character_to_sid, identity.character_id)
    IN  /\ sid \in sio_sids
        /\ sid \notin DOMAIN pending
        /\ ~register_invalid(identity)
        /\ register_must_evict(old_sid, sid)
        /\ old_sid \in sio_sids
        /\ run_disconnect(old_sid)
        /\ pending' = dict_set(pending, sid,
                        [identity |-> identity,
                         old_sid |-> old_sid,
                         held |-> Holds(old_sid, identity.character_id),
                         exclusive |-> ~OtherLiveHolder(clients', sid_to_identity',
                                                        sid, identity.character_id)])
        /\ UNCHANGED << user_rooms, nextSid >>
        /\ UNCHANGED chat_frame

\* lines 98-106 after the await of line 94 has returned.
register_resume(sid) ==
    /\ sid \in DOMAIN pending
    /\ LET identity == pending[sid].identity
           inst == register_install(sid_to_identity, character_to_sid, sid, identity)
       IN  /\ sid_to_identity' = inst.s2i
           /\ character_to_sid' = inst.c2s
    /\ pending' = dict_pop(pending, sid)
    /\ lastEmit' = NoEmit
    /\ fault' = "none"
    /\ UNCHANGED << clients, user_rooms, sio_sids, sio_rooms, nextSid >>
    /\ printed' = "registered"
    /\ UNCHANGED chat_frame

\* ------------------------------------------------------------------ rooms
\* line 112: sio.enter_room(sid, room) adds sid to the server's room.
sio_enter_room(rooms, sid, room) ==
    [r \in Rooms |-> IF r = room THEN rooms[r] \cup {sid} ELSE rooms[r]]

\* lines 109-117
enter_local(sid, room) ==
    /\ sid \in sio_sids
    /\ sio_rooms' = sio_enter_room(sio_rooms, sid, room)
    /\ user_rooms' = dict_set(user_rooms, sid, room)
    /\ lastEmit' = NoEmit
    /\ fault' = "none"
    /\ UNCHANGED << clients, sid_to_identity, character_to_sid, sio_sids, pending, nextSid >>
    /\ printed' = "joined"
    /\ UNCHANGED chat_frame

\* line 123 reads the name `room`, which neither the handler nor the module
\* binds: the handler raises NameError before it changes anything.
leave_local_fault == "NameError"

\* lines 120-127
leave_local(sid) ==
    /\ sid \in sio_sids
    /\ fault' = leave_local_fault
    /\ lastEmit' = NoEmit
    /\ UNCHANGED << clients, user_rooms, sid_to_identity, character_to_sid,
                    sio_sids, sio_rooms, pending, nextSid >>
    /\ UNCHANGED printed
    /\ UNCHANGED chat_frame

\* --------------------------------------------------------------- messages
\* lines 145-150: the recipients of a local message sent by sid.
localmsg_targets(sid) ==
    IF sid \in DOMAIN user_rooms THEN EmitRoom(user_rooms[sid]) ELSE {}

\* A localmsg that answers a sender without a room with an error payload.
localmsg_emit_error(sid) ==
    IF sid \in DOMAIN user_rooms
    THEN Emit(local_chat_event, make_sender_payload(sid), 0, "none",
              localmsg_targets(sid))
    ELSE Emit(local_chat_event, make_sender_payload(sid), 0, "not_in_room",
              EmitSid(sid))

\* lines 145-150: what localmsg emits.
localmsg_emit(sid) ==
    IF sid \in DOMAIN user_rooms
    THEN Emit(local_chat_event, make_sender_payload(sid), 0, "none",
              localmsg_targets(sid))
    ELSE NoEmit

\* lines 139-150
localmsg_handler(sid) ==
    /\ sid \in sio_sids
    /\ lastEmit' = localmsg_emit(sid)
    /\ fault' = "none"
    /\ UNCHANGED << clients, user_rooms, sid_to_identity, character_to_sid,
                    sio_sids, sio_rooms, pending, nextSid >>
    /\ printed' = IF sid \in DOMAIN user_rooms THEN "local" ELSE "not_in_room"

localmsg(sid) ==
    /\ localmsg_handler(sid)
    /\ UNCHANGED chat_frame

\* A globalmsg that does not echo the message to its sender.
globalmsg_emit_skip_sender(sid) ==
    Emit(global_chat_event, make_sender_payload(sid), 0, "none", EmitAll \ {sid})

\* lines 133-136: what globalmsg emits.
globalmsg_emit(sid) ==
    Emit(global_chat_event, make_sender_payload(sid), 0, "none", EmitAll)

\* lines 131-137
globalmsg_handler(sid) ==
    /\ sid \in sio_sids
    /\ lastEmit' = globalmsg_emit(sid)
    /\ fault' = "none"
    /\ printed' = "global"
    /\ UNCHANGED << clients, user_rooms, sid_to_identity, character_to_sid,
                    sio_sids, sio_rooms, pending, nextSid >>

globalmsg(sid) ==
    /\ globalmsg_handler(sid)
    /\ UNCHANGED chat_frame

\* Payloads a client may send with the privatemsg event.
PrivatePayloads ==
    { [to_character_id |-> <<"c1">>],
      [to_character_id |-> <<SP, "c2">>],
      [to_character_id |-> <<"zz">>],
      EmptyDict }

\* line 156: (msg.get("to_character_id") or "").strip()
privatemsg_target(msg) == strip(get_or_empty(msg, "to_character_id"))

\* line 159: character_to_sid.get(to_character_id)
privatemsg_receiver(c2s, to_character_id) ==
    IF to_character_id \in DOMAIN c2s THEN c2s[to_character_id] ELSE NoSid

\* A test that accepts any index entry without asking the server whether
\* the sid is connected.
privatemsg_online_unchecked(receiver_sid) == receiver_sid # NoSid

\* line 167: receiver_sid and receiver_sid in sio.manager.rooms.get("/", {}):
\* every connected sid has a room of its own name.
privatemsg_online(receiver_sid) == receiver_sid # NoSid /\ receiver_sid \in sio_sids

\* A privatemsg that emits without room=, that is to every connection.
privatemsg_emit_broadcast(sid, to_character_id) ==
    LET receiver_sid == privatemsg_receiver(character_to_sid, to_character_id)
    IN  IF privatemsg_online(receiver_sid)
        THEN Emit(private_chat_event, make_sender_payload(sid), 0, "none", EmitAll)
        ELSE Emit(private_chat_event, make_sender_payload(sid), 0,
                  "recipient_not_online", EmitSid(sid))

\* lines 159-175: what privatemsg emits.
privatemsg_emit(sid, to_character_id) ==
    LET receiver_sid == privatemsg_receiver(character_to_sid, to_character_id)
    IN  IF privatemsg_online(receiver_sid)
        THEN Emit(private_chat_event, make_sender_payload(sid), 0, "none",
                  EmitSid(receiver_sid))
        ELSE Emit(private_chat_event, make_sender_payload(sid), 0,
                  "recipient_not_online", EmitSid(sid))

\* lines 153-176
privatemsg_handler(sid, msg) ==
    /\ sid \in sio_sids
    /\ lastEmit' = privatemsg_emit(sid, privatemsg_target(msg))
    /\ fault' = "none"
    /\ printed' = IF lastEmit'.error = "none" THEN "private" ELSE "private_failed"
    /\ UNCHANGED << clients, user_rooms, sid_to_identity, character_to_sid,
                    sio_sids, sio_rooms, pending, nextSid >>

privatemsg(sid, msg) ==
    /\ privatemsg_handler(sid, msg)
    /\ UNCHANGED chat_frame

\* ----------------------------------------------------- messages in flight
\* Number of messages the clients send.
MaxMsgs == 3

\* The message events a client may send.
SentMessages ==
    { [kind |-> "global", msg |-> EmptyDict],
      [kind |-> "local", msg |-> EmptyDict],
      [kind |-> "private", msg |-> [to_character_id |-> <<"c1">>]] }

\* What the clients do before and between their messages: one of them
\* registers as c1, any of them enters room r1.
OrderRegPayloads == { FullPayload(<<"p1">>, <<SP, "c1", SP>>, <<"Nyx">>) }
OrderRooms == {"r1"}

\* The client of connection sid sends a message event.  The transport
\* hands the events of one connection to the server in the order sent.
client_send(sid, m) ==
    /\ sid \in sio_sids
    /\ msgSeq < MaxMsgs
    /\ msgSeq' = msgSeq + 1
    /\ inbox' = [inbox EXCEPT ![sid] =
                     Append(@, [kind |-> m.kind, msg |-> m.msg, seq |-> msgSeq + 1])]
    /\ UNCHANGED << outbox, chat_vars, master_vars, relay_vars, ws_vars, profiles_vars >>

\* An emit that puts the packet in front of what a recipient has queued.
sio_deliver_first(ob, e, sid, m) ==
    [r \in SIDS |-> IF e.event # "none" /\ r \in e.to
                    THEN << [from |-> sid, seq |-> m.seq, kind |-> m.kind] >> \o ob[r]
                    ELSE ob[r]]

\* await sio.emit(...): the packet is queued, behind the earlier ones, for
\* every recipient.
sio_deliver(ob, e, sid, m) ==
    [r \in SIDS |-> IF e.event # "none" /\ r \in e.to
                    THEN Append(ob[r], [from |-> sid, seq |-> m.seq, kind |-> m.kind])
                    ELSE ob[r]]

\* The server starts the handler of the oldest unhandled event of
\* connection sid; no handler of the three has an await before its emit.
receive_message(sid, kind) ==
    /\ inbox[sid] # << >>
    /\ Head(inbox[sid]).kind = kind
    /\ outbox' = sio_deliver(outbox, lastEmit', sid, Head(inbox[sid]))
    /\ inbox' = [inbox EXCEPT ![sid] = Tail(@)]
    /\ UNCHANGED << msgSeq, master_vars, relay_vars, ws_vars, profiles_vars >>

receive_globalmsg(sid) ==
    /\ globalmsg_handler(sid)
    /\ receive_message(sid, "global")

receive_localmsg(sid) ==
    /\ localmsg_handler(sid)
    /\ receive_message(sid, "local")

receive_privatemsg(sid) ==
    /\ inbox[sid] # << >>
    /\ privatemsg_handler(sid, Head(inbox[sid]).msg)
    /\ receive_message(sid, "private")

\* ========================================================= master-server.py
\* Python's None, where a number is expected.
None == -1

\* Payloads a game server may send with register_server: both counts, no
\* current_players, no max_players.
ServerPayloads ==
    { [current_players |-> 1, max_players |-> 2],
      [max_players |-> 1],
      [current_players |-> 1] }

\* Payloads of update_server: the server_id of any session or of none, with
\* or without current_players.
UpdatePayloads ==
    { [server_id |-> k, current_players |-> n] : k \in SIDS \cup {NoSid}, n \in {0, 2} }
        \cup { [server_id |-> k] : k \in SIDS }

\* data.get(key, default)
get_default(data, key, default) == IF key \in DOMAIN data THEN data[key] ELSE default

NoMasterEmit == [event |-> "none", servers |-> << >>, to |-> {}]

\* game_servers is a dict, which keeps its keys in insertion order: a
\* sequence of records, each carrying its key as server_id.
servers_has(gs, key) == \E i \in 1..Len(gs) : gs[i].server_id = key

servers_get(gs, key) == gs[CHOOSE i \in 1..Len(gs) : gs[i].server_id = key]

\* A store that appends even when the key is already present.
servers_set_append(gs, key, rec) == Append(gs, rec)

\* game_servers[key] = rec: an existing key keeps its position.
servers_set(gs, key, rec) ==
    IF servers_has(gs, key)
    THEN [i \in 1..Len(gs) |-> IF gs[i].server_id = key THEN rec ELSE gs[i]]
    ELSE Append(gs, rec)

\* del game_servers[key]
servers_del(gs, key) == SelectSeq(gs, LAMBDA rec : rec.server_id # key)

\* A connection to the master server is opened (the program has no connect
\* handler).
master_connect(sid) ==
    /\ master_next <= MaxSessions
    /\ sid = master_next
    /\ master_next' = master_next + 1
    /\ master_sids' = master_sids \cup {sid}
    /\ master_emit' = NoMasterEmit
    /\ master_fault' = "none"
    /\ UNCHANGED << game_servers, master_printed >>
    /\ UNCHANGED master_frame

\* lines 16-32: the record register_server stores under key sid.
register_server_record(sid, data) ==
    [server_id |-> sid,
     current_players |-> get_default(data, "current_players", 0),
     max_players |-> get_default(data, "max_players", None),
     sid |-> sid]

\* lines 13-36
register_server(sid, data) ==
    /\ sid \in master_sids
    /\ game_servers' = servers_set(game_servers, sid, register_server_record(sid, data))
    /\ master_emit' = [event |-> "server_registered", servers |-> << >>,
                       to |-> master_sids]
    /\ master_fault' = "none"
    /\ master_printed' = "registered"
    /\ UNCHANGED << master_sids, master_next >>
    /\ UNCHANGED master_frame

\* An update that creates a record for an unknown server_id.
update_server_records_upsert(gs, server_id, current_players) ==
    IF servers_has(gs, server_id)
    THEN servers_set(gs, server_id,
                     [servers_get(gs, server_id) EXCEPT !.current_players = current_players])
    ELSE Append(gs, [server_id |-> server_id, current_players |-> current_players,
                     max_players |-> None, sid |-> server_id])

\* lines 45-46 applied to the dict gs.
update_server_records(gs, server_id, current_players) ==
    IF servers_has(gs, server_id)
    THEN servers_set(gs, server_id,
                     [servers_get(gs, server_id) EXCEPT !.current_players = current_players])
    ELSE gs

\* lines 39-49
update_server(sid, data) ==
    LET server_id == get_default(data, "server_id", NoSid)
        current_players == get_default(data, "current_players", None)
    IN  /\ sid \in master_sids
        /\ game_servers' = update_server_records(game_servers, server_id, current_players)
        /\ master_emit' = NoMasterEmit
        /\ master_fault' = "none"
        /\ master_printed' = IF servers_has(game_servers, server_id)
                             THEN "updated" ELSE "not_found"
        /\ UNCHANGED << master_sids, master_next >>
        /\ UNCHANGED master_frame

\* line 73: info["current_players"] < info["max_players"] raises TypeError
\* when either side is None.
get_servers_faults(gs) ==
    \E i \in 1..Len(gs) : gs[i].current_players = None \/ gs[i].max_players = None

\* lines 64-74: the list of servers with a free slot.
get_servers_available(gs) ==
    LET free == SelectSeq(gs, LAMBDA rec : rec.current_players < rec.max_players)
    IN  [i \in 1..Len(free) |->
            [server_id |-> free[i].server_id,
             current_players |-> free[i].current_players,
             max_players |-> free[i].max_players]]

\* lines 61-75
get_servers(sid) ==
    /\ sid \in master_sids
    /\ IF get_servers_faults(game_servers)
       THEN /\ master_fault' = "TypeError"
            /\ master_emit' = NoMasterEmit
       ELSE /\ master_fault' = "none"
            /\ master_emit' = [event |-> "available_servers",
                               servers |-> get_servers_available(game_servers),
                               to |-> {sid} \cap master_sids]
    /\ UNCHANGED << game_servers, master_sids, master_next, master_printed >>
    /\ UNCHANGED master_frame

\* A disconnect that deletes the first record, whoever owns it.
disconnect_servers_first(gs, sid) == IF gs = << >> THEN gs ELSE Tail(gs)

\* lines 81-85: delete the first record whose sid is the disconnected one.
disconnect_servers(gs, sid) ==
    IF \E i \in 1..Len(gs) : gs[i].sid = sid
    THEN LET first == CHOOSE i \in 1..Len(gs) :
                          /\ gs[i].sid = sid
                          /\ \A j \in 1..(i - 1) : gs[j].sid # sid
         IN  servers_del(gs, gs[first].server_id)
    ELSE gs

\* lines 78-85: the transport reports that connection sid has closed.
master_disconnect(sid) ==
    /\ sid \in master_sids
    /\ master_sids' = master_sids \ {sid}
    /\ game_servers' = disconnect_servers(game_servers, sid)
    /\ master_emit' = NoMasterEmit
    /\ master_fault' = "none"
    /\ master_printed' = IF game_servers' # game_servers
                         THEN "server_disconnected" ELSE master_printed
    /\ UNCHANGED master_next
    /\ UNCHANGED master_frame

\* ================================================================= chat.py
\* Python's None as a user name.
NoUser == "None"

RelayUsers == {"u1", "u2"}

\* Payloads of the relay's register event: a user name, or none.
RelayRegPayloads == { [user |-> u] : u \in RelayUsers } \cup { EmptyDict }

\* Payloads of the relay's privatemsg event: a receiver name, or none.
RelayPrivatePayloads == { [to |-> u] : u \in RelayUsers } \cup { EmptyDict }

RelayEmit(ev, from, notice, to) ==
    [event |-> ev, from |-> from, notice |-> notice, to |-> to]

\* dict.get(key): the value, or None.
relay_get_user(d, key) == IF key \in DOMAIN d THEN d[key] ELSE NoUser
relay_get_sid(d, key) == IF key \in DOMAIN d THEN d[key] ELSE NoSid

\* sio.manager.rooms["/"]: the rooms of the namespace.  Every connected
\* sid is a room of its own, and the room of all connected sids has the
\* key None.
relay_manager_rooms == IF relay_sids = {} THEN {} ELSE relay_sids \cup {NoSid}

\* sio.emit(..., room=r): the members of room r; room None is everybody.
relay_room_members(r) == IF r = NoSid THEN relay_sids ELSE {r} \cap relay_sids

\* lines 32-38
relay_connect(sid) ==
    /\ relay_next <= MaxSessions
    /\ sid = relay_next
    /\ relay_next' = relay_next + 1
    /\ relay_sids' = relay_sids \cup {sid}
    /\ relay_clients' = Append(relay_clients, sid)
    /\ relay_emit' = RelayEmit(server_chat_event, NoUser, FALSE, relay_sids')
    /\ UNCHANGED << sid_to_user, user_to_sid >>
    /\ UNCHANGED relay_frame

\* lines 42-53
relay_disconnect(sid) ==
    /\ sid \in relay_sids
    /\ relay_clients' = list_remove(relay_clients, sid)
    /\ IF sid \in DOMAIN sid_to_user
       THEN /\ sid_to_user' = dict_pop(sid_to_user, sid)
            /\ user_to_sid' = dict_pop(user_to_sid, sid_to_user[sid])
       ELSE UNCHANGED << sid_to_user, user_to_sid >>
    /\ relay_emit' = RelayEmit(server_chat_event, NoUser, FALSE, relay_sids)
    /\ relay_sids' = relay_sids \ {sid}
    /\ UNCHANGED relay_next
    /\ UNCHANGED relay_frame

\* lines 56-61
relay_register(sid, data) ==
    LET username == IF "user" \in DOMAIN data THEN data.user ELSE NoUser
    IN  /\ sid \in relay_sids
        /\ sid_to_user' = dict_set(sid_to_user, sid, username)
        /\ user_to_sid' = dict_set(user_to_sid, username, sid)
        /\ relay_emit' = RelayEmit("none", NoUser, FALSE, {})
        /\ UNCHANGED << relay_clients, relay_sids, relay_next >>
        /\ UNCHANGED relay_frame

\* line 112: msg.get("to")
relay_privatemsg_receiver(msg) == IF "to" \in DOMAIN msg THEN msg.to ELSE NoUser

\* line 117: receiver_sid in sio.manager.rooms["/"]
relay_privatemsg_online(receiver_sid) == receiver_sid \in relay_manager_rooms

\* lines 111-126: what privatemsg emits.
relay_privatemsg_emit(sid, msg) ==
    LET sender == relay_get_user(sid_to_user, sid)
        receiver_sid == relay_get_sid(user_to_sid, relay_privatemsg_receiver(msg))
    IN  IF relay_privatemsg_online(receiver_sid)
        THEN RelayEmit(private_chat_event, sender, FALSE, relay_room_members(receiver_sid))
        ELSE RelayEmit(private_chat_event, sender, TRUE, relay_room_members(sid))

\* lines 109-127
relay_privatemsg(sid, msg) ==
    /\ sid \in relay_sids
    /\ relay_emit' = relay_privatemsg_emit(sid, msg)
    /\ UNCHANGED << relay_clients, sid_to_user, user_to_sid, relay_sids, relay_next >>
    /\ UNCHANGED relay_frame

\* ======================================================== WebsocketChat.py
WsUsers == {"u1", "u2"}

\* Texts a client may send: a dict naming a receiver, or a text that
\* eval (line 23) cannot parse.
WsMessages == { [to |-> u] : u \in WsUsers } \cup { [malformed |-> TRUE] }

\* What a send_text on a websocket that is already closed raises.
WsSendErrors == {"WebSocketDisconnect", "RuntimeError"}

WsNoSend == [kind |-> "none", to |-> NoSid]

\* lines 44-46: del active_connections[username] raises KeyError when the
\* entry is gone.
ws_cleanup(ac, username) ==
    IF username \in DOMAIN ac
    THEN [ac |-> dict_pop(ac, username), fault |-> "none"]
    ELSE [ac |-> ac, fault |-> "KeyError"]

\* lines 9-13: a client opens /ws/{username}.
ws_connect(ws, username) ==
    /\ ws_next <= MaxSessions
    /\ ws = ws_next
    /\ ws_next' = ws_next + 1
    /\ ws_open' = ws_open \cup {ws}
    /\ ws_username' = dict_set(ws_username, ws, username)
    /\ active_connections' = dict_set(active_connections, username, ws)
    /\ ws_fault' = "none"
    /\ ws_sent' = WsNoSend
    /\ UNCHANGED ws_frame

\* The handler of websocket ws leaves through the except clause of
\* lines 44-46.
ws_handler_disconnected(ws) ==
    LET res == ws_cleanup(active_connections, ws_username[ws])
    IN  /\ active_connections' = res.ac
        /\ ws_fault' = res.fault
        /\ ws_open' = ws_open \ {ws}

\* The handler of websocket ws ends with an exception that line 44 does
\* not catch; the server closes the connection.
ws_handler_crashed(ws, error) ==
    /\ ws_fault' = error
    /\ ws_open' = ws_open \ {ws}
    /\ UNCHANGED active_connections

\* lines 18, 44-46: the client of ws closes; receive_text raises
\* WebSocketDisconnect.
ws_disconnect(ws) ==
    /\ ws \in ws_open
    /\ ws_handler_disconnected(ws)
    /\ ws_sent' = WsNoSend
    /\ UNCHANGED << ws_username, ws_next >>
    /\ UNCHANGED ws_frame

\* lines 18-43: one round of the loop, for a text the client of ws sent.
ws_message(ws, message, error) ==
    /\ ws \in ws_open
    /\ IF "malformed" \in DOMAIN message
       THEN /\ error = "SyntaxError"
            /\ ws_handler_crashed(ws, error)
            /\ ws_sent' = WsNoSend
       ELSE IF message.to \in DOMAIN active_connections
            THEN LET target_websocket == active_connections[message.to]
                 IN  IF target_websocket \in ws_open
                     THEN /\ error = "none"
                          /\ ws_sent' = [kind |-> "message", to |-> target_websocket]
                          /\ ws_fault' = "none"
                          /\ UNCHANGED << active_connections, ws_open >>
                     ELSE /\ error \in WsSendErrors
                          /\ ws_sent' = WsNoSend
                          /\ IF error = "WebSocketDisconnect"
                             THEN ws_handler_disconnected(ws)
                             ELSE ws_handler_crashed(ws, error)
            ELSE /\ error = "none"
                 /\ ws_sent' = [kind |-> "error", to |-> ws]
                 /\ ws_fault' = "none"
                 /\ UNCHANGED << active_connections, ws_open >>
    /\ UNCHANGED << ws_username, ws_next >>
    /\ UNCHANGED ws_frame

\* ====================================================== profiles_server.py
Players == {"p1", "p2"}

\* The ids the store gives to characters, in the order of creation, which
\* is also their order as strings.
CharacterIds == << "c1", "c2", "c3" >>
Characters == {CharacterIds[i] : i \in 1..Len(CharacterIds)}

\* a < b on character ids
id_less(a, b) ==
    \E i, j \in 1..Len(CharacterIds) :
        CharacterIds[i] = a /\ CharacterIds[j] = b /\ i < j

\* SocialActionRequest, lines 367-370
SocialRequests ==
    [player_id : Players, character_id : Characters, target_character_id : Characters]

\* lines 86-142, as far as the characters table goes: a character of player
\* player_id is inserted.
create_character(player_id) ==
    /\ Cardinality(DOMAIN characters) < Len(CharacterIds)
    /\ characters' = dict_set(characters,
                              CharacterIds[Cardinality(DOMAIN characters) + 1], player_id)
    /\ profiles_response' = "ok"
    /\ UNCHANGED << character_friends, character_friend_requests, character_blocks >>
    /\ UNCHANGED profiles_frame

\* lines 373-379
character_owned(character_id, player_id) ==
    character_id \in DOMAIN characters /\ characters[character_id] = player_id

\* lines 385-396: << a blocks b, b blocks a >>
is_blocked_either_way(a, b) ==
    << <<a, b>> \in character_blocks, <<b, a>> \in character_blocks >>

\* lines 398-399
friends_key(a, b) == IF id_less(a, b) THEN <<a, b>> ELSE <<b, a>>

\* The request fails with an HTTPException: the transaction is rolled back.
profiles_reject(detail) ==
    /\ profiles_response' = detail
    /\ UNCHANGED << characters, character_friends, character_friend_requests,
                    character_blocks >>

\* lines 401-460
send_friend_request(req) ==
    LET a == req.character_id
        b == req.target_character_id
        blocked == is_blocked_either_way(a, b)
    IN  /\ IF a = b THEN profiles_reject("Cannot target self")
           ELSE IF ~character_owned(a, req.player_id)
                THEN profiles_reject("Character not owned by player")
           ELSE IF blocked[2] THEN profiles_reject("You are blocked by this character")
           ELSE IF blocked[1] THEN profiles_reject("Unblock this character first")
           ELSE IF friends_key(a, b) \in character_friends
                THEN profiles_reject("Already friends")
           ELSE IF <<b, a>> \in character_friend_requests
                THEN /\ character_friend_requests' = character_friend_requests \ {<<b, a>>}
                     /\ character_friends' = character_friends \cup {friends_key(a, b)}
                     /\ profiles_response' = "friends"
                     /\ UNCHANGED << characters, character_blocks >>
           ELSE IF <<a, b>> \in character_friend_requests
                THEN profiles_reject("Request already exists")
           ELSE /\ character_friend_requests' = character_friend_requests \cup {<<a, b>>}
                /\ profiles_response' = "requested"
                /\ UNCHANGED << characters, character_friends, character_blocks >>
        /\ UNCHANGED profiles_frame

\* line 540
accept_request_blocked(me, sender) == is_blocked_either_way(me, sender)

\* lines 518-561
accept_request(req) ==
    LET me == req.character_id
        sender == req.target_character_id
        blocked == accept_request_blocked(me, sender)
    IN  /\ IF me = sender THEN profiles_reject("Cannot target self")
           ELSE IF ~character_owned(me, req.player_id)
                THEN profiles_reject("Character not owned by player")
           ELSE IF <<sender, me>> \notin character_friend_requests
                THEN profiles_reject("Friend request not found")
           ELSE IF blocked[2] THEN profiles_reject("You are blocked by this character")
           ELSE IF blocked[1] THEN profiles_reject("Unblock this character first")
           ELSE /\ character_friend_requests' = character_friend_requests \ {<<sender, me>>}
                /\ character_friends' = character_friends \cup {friends_key(me, sender)}
                /\ profiles_response' = "ok"
                /\ UNCHANGED << characters, character_blocks >>
        /\ UNCHANGED profiles_frame

\* lines 563-577
decline_request(req) ==
    LET me == req.character_id
        sender == req.target_character_id
    IN  /\ IF me = sender THEN profiles_reject("Cannot target self")
           ELSE IF ~character_owned(me, req.player_id)
                THEN profiles_reject("Character not owned by player")
           ELSE /\ character_friend_requests' = character_friend_requests \ {<<sender, me>>}
                /\ profiles_response' = "ok"
                /\ UNCHANGED << characters, character_friends, character_blocks >>
        /\ UNCHANGED profiles_frame

\* lines 613-627
remove_friend(req) ==
    LET a == req.character_id
        b == req.target_character_id
    IN  /\ IF a = b THEN profiles_reject("Cannot target self")
           ELSE IF ~character_owned(a, req.player_id)
                THEN profiles_reject("Character not owned by player")
           ELSE /\ character_friends' = character_friends \ {friends_key(a, b)}
                /\ profiles_response' = "ok"
                /\ UNCHANGED << characters, character_friend_requests, character_blocks >>
        /\ UNCHANGED profiles_frame

\* A block that leaves the friendship in place.
add_block_friends_kept(friends, blocker, blocked) == friends

\* lines 649-654: the friendship of the pair is deleted.
add_block_friends(friends, blocker, blocked) == friends \ {friends_key(blocker, blocked)}

\* lines 656-664: the pending requests of the pair are deleted.
add_block_requests(requests, blocker, blocked) ==
    requests \ {<<blocker, blocked>>, <<blocked, blocker>>}

\* lines 629-666
add_block(req) ==
    LET blocker == req.character_id
        blocked == req.target_character_id
    IN  /\ IF blocker = blocked THEN profiles_reject("Cannot target self")
           ELSE IF ~character_owned(blocker, req.player_id)
                THEN profiles_reject("Character not owned by player")
           ELSE /\ character_blocks' = character_blocks \cup {<<blocker, blocked>>}
                /\ character_friends' = add_block_friends(character_friends, blocker, blocked)
                /\ character_friend_requests' =
                      add_block_requests(character_friend_requests, blocker, blocked)
                /\ profiles_response' = "ok"
                /\ UNCHANGED characters
        /\ UNCHANGED profiles_frame

\* lines 668-681
remove_block(req) ==
    LET blocker == req.character_id
        blocked == req.target_character_id
    IN  /\ IF blocker = blocked THEN profiles_reject("Cannot target self")
           ELSE IF ~character_owned(blocker, req.player_id)
                THEN profiles_reject("Character not owned by player")
           ELSE /\ character_blocks' = character_blocks \ {<<blocker, blocked>>}
                /\ profiles_response' = "ok"
                /\ UNCHANGED << characters, character_friends, character_friend_requests >>
        /\ UNCHANGED profiles_frame

\* ---------------------------------------------------------- specifications
\* Clients that connect, register and disconnect.
NextRegistry ==
    \/ \E sid \in SIDS : connect(sid)
    \/ \E sid \in SIDS : disconnect(sid)
    \/ \E sid \in SIDS, data \in RegPayloads : register_reject(sid, data)
    \/ \E sid \in SIDS, data \in RegPayloads, raised \in BOOLEAN :
           register_direct(sid, data, raised)
    \/ \E sid \in SIDS, data \in RegPayloads : register_evict(sid, data)
    \/ \E sid \in SIDS : register_resume(sid)

\* Clients that connect, use rooms and disconnect.
NextRooms ==
    \/ \E sid \in SIDS : connect(sid)
    \/ \E sid \in SIDS : disconnect(sid)
    \/ \E sid \in SIDS, room \in Rooms : enter_local(sid, room)
    \/ \E sid \in SIDS : leave_local(sid)
    \/ \E sid \in SIDS : localmsg(sid)

\* Clients that connect, register, send global and private messages and
\* disconnect.
NextMessages ==
    \/ \E sid \in SIDS : connect(sid)
    \/ \E sid \in SIDS : disconnect(sid)
    \/ \E sid \in SIDS, data \in RegPayloads : register_reject(sid, data)
    \/ \E sid \in SIDS, data \in RegPayloads, raised \in BOOLEAN :
           register_direct(sid, data, raised)
    \/ \E sid \in SIDS, data \in RegPayloads : register_evict(sid, data)
    \/ \E sid \in SIDS : register_resume(sid)
    \/ \E sid \in SIDS : globalmsg(sid)
    \/ \E sid \in SIDS, msg \in PrivatePayloads : privatemsg(sid, msg)

Next ==
    \/ \E sid \in SIDS : connect(sid)
    \/ \E sid \in SIDS : disconnect(sid)
    \/ \E sid \in SIDS, data \in RegPayloads : register_reject(sid, data)
    \/ \E sid \in SIDS, data \in RegPayloads, raised \in BOOLEAN :
           register_direct(sid, data, raised)
    \/ \E sid \in SIDS, data \in RegPayloads : register_evict(sid, data)
    \/ \E sid \in SIDS : register_resume(sid)
    \/ \E sid \in SIDS, room \in Rooms : enter_local(sid, room)
    \/ \E sid \in SIDS : leave_local(sid)
    \/ \E sid \in SIDS : localmsg(sid)
    \/ \E sid \in SIDS : globalmsg(sid)
    \/ \E sid \in SIDS, msg \in PrivatePayloads : privatemsg(sid, msg)

\* Game servers and clients of the master server.
NextMaster ==
    \/ \E sid \in SIDS : master_connect(sid)
    \/ \E sid \in SIDS, data \in ServerPayloads : register_server(sid, data)
    \/ \E sid \in SIDS, data \in UpdatePayloads : update_server(sid, data)
    \/ \E sid \in SIDS : get_servers(sid)
    \/ \E sid \in SIDS : master_disconnect(sid)

\* Clients of the chat.py relay.
NextRelay ==
    \/ \E sid \in SIDS : relay_connect(sid)
    \/ \E sid \in SIDS : relay_disconnect(sid)
    \/ \E sid \in SIDS, data \in RelayRegPayloads : relay_register(sid, data)
    \/ \E sid \in SIDS, msg \in RelayPrivatePayloads : relay_privatemsg(sid, msg)

\* Clients that connect, register, enter rooms and send messages, which
\* the server handles some time later.
NextOrder ==
    \/ \E sid \in SIDS : connect(sid)
    \/ \E sid \in SIDS, data \in OrderRegPayloads : register_direct(sid, data, FALSE)
    \/ \E sid \in SIDS, room \in OrderRooms : enter_local(sid, room)
    \/ \E sid \in SIDS, m \in SentMessages : client_send(sid, m)
    \/ \E sid \in SIDS : receive_globalmsg(sid)
    \/ \E sid \in SIDS : receive_localmsg(sid)
    \/ \E sid \in SIDS : receive_privatemsg(sid)

\* Clients of WebsocketChat.py.
NextWs ==
    \/ \E ws \in SIDS, username \in WsUsers : ws_connect(ws, username)
    \/ \E ws \in SIDS : ws_disconnect(ws)
    \/ \E ws \in SIDS, message \in WsMessages,
          error \in {"none", "SyntaxError"} \cup WsSendErrors :
           ws_message(ws, message, error)

\* Requests to profiles_server.py, one at a time.
NextProfiles ==
    \/ \E player_id \in Players : create_character(player_id)
    \/ \E req \in SocialRequests : send_friend_request(req)
    \/ \E req \in SocialRequests : accept_request(req)
    \/ \E req \in SocialRequests : decline_request(req)
    \/ \E req \in SocialRequests : remove_friend(req)
    \/ \E req \in SocialRequests : add_block(req)
    \/ \E req \in SocialRequests : remove_block(req)

Spec == Init /\ [][Next]_vars
SpecProfiles == Init /\ [][NextProfiles]_vars
SpecWs == Init /\ [][NextWs]_vars
SpecOrder == Init /\ [][NextOrder]_vars
SpecRelay == Init /\ [][NextRelay]_vars
SpecMaster == Init /\ [][NextMaster]_vars
SpecMessages == Init /\ [][NextMessages]_vars
SpecRegistry == Init /\ [][NextRegistry]_vars
SpecRooms == Init /\ [][NextRooms]_vars

\* ================================================================ properties
Live(sid) == InList(sid, clients)

\* Sessions whose connection has been opened and closed again.
Disconnected == {s \in SIDS : s < nextSid /\ s \notin sio_sids}

IndexedSids == {character_to_sid[c] : c \in DOMAIN character_to_sid}

\* C1: every entry of the IdentityIndex (character_to_sid) names a session
\* that is currently live (present in clients).
C1_IndexEntriesLive ==
    \A c \in DOMAIN character_to_sid : Live(character_to_sid[c])

\* C2: no two live sessions hold a registered Identity with the same
\* character_id, also when the forced disconnect of the previous holder
\* fails and its exception is swallowed.
C2_OneLiveSessionPerCharacter ==
    \A s, t \in DOMAIN sid_to_identity :
        (s # t /\ Live(s) /\ Live(t))
            => sid_to_identity[s].character_id # sid_to_identity[t].character_id

\* B's register, suspended after it evicted A, the live holder of cid,
\* completes.
RegisterCompletesOver(B, A, cid) ==
    /\ register_resume(B)
    /\ pending[B].held
    /\ pending[B].old_sid = A
    /\ pending[B].identity.character_id = cid

\* C3: last-register-wins eviction: when session A holds character_id c and
\* a different session B registers c, then once B's register completes
\* IdentityIndex[c] = B, A is not live and A has no Identity record.
C3_LastRegisterWins ==
    [][\A A, B \in SIDS : \A cid \in {<<"c1">>, <<"c2">>} :
          (A # B /\ RegisterCompletesOver(B, A, cid))
              => /\ cid \in DOMAIN character_to_sid'
                 /\ character_to_sid'[cid] = B
                 /\ ~InList(A, clients')
                 /\ A \notin DOMAIN sid_to_identity']_vars

\* C4: evict-then-install is atomic with respect to other handlers: no
\* other handler runs between the read of the old entry and the install, so
\* a register that left no live holder of the character_id when it evicted
\* finds none when it installs, and two sessions registering the same
\* character_id concurrently do not both end up live with it.
C4_EvictInstallAtomic ==
    [][\A s \in SIDS : (register_resume(s) /\ pending[s].exclusive)
          => ~OtherLiveHolder(clients', sid_to_identity', s,
                              pending[s].identity.character_id)]_vars

\* C5: a disconnect while the session's own register handler is suspended at
\* the eviction await leaves no dangling entries: once both handlers have
\* finished, neither sid_to_identity nor character_to_sid has an entry for
\* the disconnected session.
C5_NoDanglingAfterMidRegisterDisconnect ==
    [][\A s \in SIDS : (register_resume(s) /\ s \in Disconnected)
          => /\ s \notin DOMAIN sid_to_identity'
             /\ \A c \in DOMAIN character_to_sid' : character_to_sid'[c] # s]_vars

\* C6: a disconnected session has no residual room membership: user_rooms
\* has no entry for it and it is in the member set of no room.
C6_NoRoomResidueAfterDisconnect ==
    \A s \in Disconnected :
        /\ s \notin DOMAIN user_rooms
        /\ \A r \in Rooms : s \notin sio_rooms[r]

\* C7: disconnect is idempotent and safe without registration: for any
\* session (never registered, or already disconnected) it raises no fault,
\* and running it a second time leaves clients, sid_to_identity and
\* character_to_sid exactly as the single run left them.
C7_DisconnectIdempotent ==
    \A s \in SIDS :
        LET once == disconnect_handler(CurState, s)
            twice == disconnect_handler(once, s)
        IN  /\ once.fault = "none"
            /\ twice.fault = "none"
            /\ twice.clients = once.clients
            /\ twice.sid_to_identity = once.sid_to_identity
            /\ twice.character_to_sid = once.character_to_sid
            /\ ~InList(s, once.clients)
            /\ s \notin DOMAIN once.sid_to_identity

\* A session has been disconnected without ever registering while another
\* session is live and registered.
C7_Witness ==
    \E s \in Disconnected, t \in SIDS :
        /\ s \notin IndexedSids
        /\ Live(t) /\ t \in DOMAIN sid_to_identity
        /\ disconnect_handler(CurState, s).clients = clients

\* C8: a session belongs to at most one room: after Join(s, r1) then
\* Join(s, r2), r1's member set no longer contains s.
C8_AtMostOneRoom ==
    \A s \in SIDS : Cardinality({r \in Rooms : s \in sio_rooms[r]}) <= 1

\* C9: Leave(session) removes the session from its current room, leaving it
\* with no current room and a member of no room; in no room it changes no
\* state; in both cases it raises no fault.
C9_LeaveRemovesFromRoom ==
    [][\A s \in SIDS : leave_local(s)
          => /\ fault' = "none"
             /\ s \notin DOMAIN user_rooms'
             /\ \A r \in Rooms : s \notin sio_rooms'[r]
             /\ (s \notin DOMAIN user_rooms
                    => UNCHANGED << user_rooms, sio_rooms >>)]_vars

\* The live sessions whose current room is the current room of sid.
SameRoomAs(sid) ==
    {t \in SIDS : /\ Live(t)
                  /\ t \in DOMAIN user_rooms
                  /\ user_rooms[t] = user_rooms[sid]}

\* C10: Local(sender, text) is delivered to exactly the live sessions whose
\* current room is the sender's current room, and to no session that joined
\* that room earlier and has since joined another.
C10_LocalReachesExactlyCurrentRoom ==
    [][\A s \in SIDS : (localmsg(s) /\ s \in DOMAIN user_rooms)
          => /\ lastEmit'.event = local_chat_event
             /\ lastEmit'.to = SameRoomAs(s)]_vars

\* C11: Local(sender, text) when the sender has no current room is a silent
\* no-op: nothing is delivered to any session, no error payload goes to the
\* sender, no fault is raised and no registry changes.
C11_LocalWithoutRoomIsSilent ==
    [][\A s \in SIDS : (localmsg(s) /\ s \notin DOMAIN user_rooms)
          => /\ lastEmit' = NoEmit
             /\ lastEmit'.to = {}
             /\ fault' = "none"
             /\ UNCHANGED << clients, user_rooms, sid_to_identity, character_to_sid,
                             sio_sids, sio_rooms, pending >>]_vars

\* A connected session without a room has sent a local message while
\* another connected session was in a room.
C11_Witness ==
    /\ printed = "not_in_room"
    /\ lastEmit = NoEmit
    /\ \E s, t \in sio_sids :
          s \notin DOMAIN user_rooms /\ t \in DOMAIN user_rooms

\* The session the IdentityIndex resolves character_id cid to, if it is live.
LiveTargets(cid) ==
    IF cid \in DOMAIN character_to_sid /\ Live(character_to_sid[cid])
    THEN {character_to_sid[cid]}
    ELSE {}

\* C12: Private(sender, target, text) whose target does not resolve in the
\* IdentityIndex, or resolves to a session that is not live, yields exactly
\* one event, the error payload "recipient_not_online", delivered to the
\* sender and to no other session.
C12_PrivateToOfflineTargetErrorsToSender ==
    [][\A s \in SIDS : \A msg \in PrivatePayloads :
          (privatemsg(s, msg) /\ LiveTargets(strip(get_or_empty(msg, "to_character_id"))) = {})
              => /\ lastEmit'.event = private_chat_event
                 /\ lastEmit'.error = "recipient_not_online"
                 /\ lastEmit'.to = {s}]_vars

\* A private message to a character_id whose index entry names a session
\* that has gone has been answered with the error payload.
C12_Witness ==
    /\ lastEmit.event = private_chat_event
    /\ lastEmit.error = "recipient_not_online"
    /\ Cardinality(lastEmit.to) = 1
    /\ \E c \in DOMAIN character_to_sid : ~Live(character_to_sid[c])
    /\ Cardinality(sio_sids) >= 2

\* C13: Private(sender, target, text) whose target resolves to a live
\* session is delivered once, to that session and to no other; the sender
\* receives nothing unless it is the target, and no error payload is sent.
C13_PrivateReachesOnlyTarget ==
    [][\A s \in SIDS : \A msg \in PrivatePayloads :
          LET targets == LiveTargets(strip(get_or_empty(msg, "to_character_id")))
          IN  (privatemsg(s, msg) /\ targets # {})
                 => /\ lastEmit'.event = private_chat_event
                    /\ lastEmit'.error = "none"
                    /\ lastEmit'.to = targets
                    /\ (s \in lastEmit'.to => targets = {s})]_vars

\* A private message has been delivered to one of three live sessions, and
\* the sender is not among the recipients.
C13_Witness ==
    /\ lastEmit.event = private_chat_event
    /\ lastEmit.error = "none"
    /\ Cardinality(lastEmit.to) = 1
    /\ lastEmit.to \subseteq sio_sids
    /\ lastEmit.sender.character_name = Unknown
    /\ Cardinality(sio_sids) = 3

\* C14: Global(sender, text) delivers one message carrying the sender's
\* Identity fields, or the placeholder when the sender is unregistered, to
\* every live session, the sender included, and to no session that is not
\* live.
C14_GlobalReachesEveryLiveSession ==
    [][\A s \in SIDS : globalmsg(s)
          => /\ lastEmit'.event = global_chat_event
             /\ lastEmit'.error = "none"
             /\ lastEmit'.to = {t \in SIDS : Live(t)}
             /\ s \in lastEmit'.to
             /\ lastEmit'.sender =
                  IF s \in DOMAIN sid_to_identity
                  THEN sid_to_identity[s]
                  ELSE [player_id |-> EmptyStr, character_id |-> EmptyStr,
                        character_name |-> <<"Unknown">>]]_vars

\* A registered sender's global message has reached two live sessions
\* after a third session disconnected.
C14_Witness ==
    /\ lastEmit.event = global_chat_event
    /\ lastEmit.sender.character_name = <<"Nyx">>
    /\ Cardinality(lastEmit.to) = 2
    /\ Disconnected # {}

\* A payload field that is missing, empty or whitespace only.
FieldBlank(data, key) ==
    \/ key \notin DOMAIN data
    \/ \A i \in 1..Len(data[key]) : data[key][i] = SP

RequiredFieldBlank(data) ==
    \E key \in {"player_id", "character_id", "character_name"} : FieldBlank(data, key)

\* Some step of the register handler called by sid with payload data.
RegisterStep(sid, data) ==
    \/ register_reject(sid, data)
    \/ \E raised \in BOOLEAN : register_direct(sid, data, raised)
    \/ register_evict(sid, data)

\* C15: RegisterIdentity with any of player_id, character_id, character_name
\* missing or empty after trimming fails with a validation error reported to
\* the offending sender only; sid_to_identity, character_to_sid and clients
\* are unchanged, no session is evicted and the sender stays live.
C15_InvalidRegisterRejected ==
    [][\A s \in SIDS : \A data \in RegPayloads :
          (RegisterStep(s, data) /\ RequiredFieldBlank(data))
              => /\ lastEmit'.event = server_chat_event
                 /\ lastEmit'.error = "register missing"
                 /\ lastEmit'.to = {s}
                 /\ UNCHANGED << clients, sid_to_identity, character_to_sid,
                                 sio_sids, pending >>
                 /\ InList(s, clients')]_vars

\* A registration has been rejected while the index held two entries, both
\* of live sessions.
C15_Witness ==
    /\ printed = "register_failed"
    /\ lastEmit.error = "register missing"
    /\ Cardinality(lastEmit.to) = 1
    /\ Cardinality(DOMAIN character_to_sid) = 2
    /\ \A c \in DOMAIN character_to_sid : Live(character_to_sid[c])

\* The payloads of the scenario of C16 and the Identity A registers.
ScenarioIdentityA ==
    [player_id |-> <<"p1">>, character_id |-> <<"c1">>, character_name |-> <<"Nyx">>]

ScenarioPayloadB == [character_id |-> <<"c1">>, character_name |-> <<"Nyx2">>]

\* A is live and registered as ScenarioIdentityA, and B now registers
\* ScenarioPayloadB.
ScenarioStep(A, B) ==
    /\ A # B
    /\ Holds(A, <<"c1">>)
    /\ sid_to_identity[A] = ScenarioIdentityA
    /\ RegisterStep(B, ScenarioPayloadB)

\* C16 as stated: after A registered {p1, c1, Nyx} and B registered
\* {character_id: c1, character_name: Nyx2}, A is disconnected,
\* IdentityIndex[c1] resolves to B and a Global message from B carries the
\* sender name Nyx2.
C16_ScenarioAsStated ==
    [][\A A, B \in SIDS : ScenarioStep(A, B)
          => /\ ~InList(A, clients')
             /\ <<"c1">> \in DOMAIN character_to_sid'
             /\ character_to_sid'[<<"c1">>] = B
             /\ globalmsg_emit(B)'.sender.character_name = <<"Nyx2">>]_vars

\* C16 amended: B's payload lacks player_id, so the register is rejected
\* with a validation error sent to B only; A stays live and registered,
\* IdentityIndex[c1] still resolves to A, and a Global message from B carries
\* the sender name B had before (Unknown when B never registered).
C16_ScenarioRejected ==
    [][\A A, B \in SIDS : ScenarioStep(A, B)
          => /\ InList(A, clients')
             /\ sid_to_identity'[A] = ScenarioIdentityA
             /\ character_to_sid'[<<"c1">>] = A
             /\ lastEmit'.error = "register missing"
             /\ lastEmit'.to = {B}
             /\ globalmsg_emit(B)'.sender = globalmsg_emit(B).sender
             /\ (B \notin DOMAIN sid_to_identity
                    => globalmsg_emit(B)'.sender.character_name = <<"Unknown">>)]_vars

\* A holds c1 as Nyx and the registration of the unregistered session B has
\* just been rejected.
C16_Witness ==
    /\ printed = "register_failed"
    /\ \E A, B \in SIDS :
          /\ A # B
          /\ Holds(A, <<"c1">>)
          /\ sid_to_identity[A] = ScenarioIdentityA
          /\ lastEmit.to = {B}
          /\ lastEmit.error = "register missing"
          /\ B \notin DOMAIN sid_to_identity
          /\ globalmsg_emit(B).sender.character_name = <<"Unknown">>

\* C17: re-registration by the same live session keeps the IdentityIndex
\* bijection-like: character_to_sid[c] = s implies that s's Identity has
\* character_id c, so a character_id the session no longer holds does not
\* resolve to it.
C17_IndexMatchesIdentity ==
    \A c \in DOMAIN character_to_sid :
        LET s == character_to_sid[c]
        IN  Live(s) => /\ s \in DOMAIN sid_to_identity
                       /\ sid_to_identity[s].character_id = c

\* Lookup(session), the sender payload the router attaches to a message.
Lookup(sid) == make_sender_payload(sid)

Placeholder ==
    [player_id |-> EmptyStr, character_id |-> EmptyStr, character_name |-> <<"Unknown">>]

\* The Identity a payload with all fields present denotes: its fields
\* without their whitespace.
NoSpaces(s) == SelectSeq(s, LAMBDA x : x # SP)

PayloadIdentity(data) ==
    [player_id |-> NoSpaces(data.player_id),
     character_id |-> NoSpaces(data.character_id),
     character_name |-> NoSpaces(data.character_name)]

\* C18: Lookup(session) returns the most recently registered Identity of a
\* registered session, and the placeholder (empty ids, name "Unknown") for a
\* session that has connected but never registered or whose registration
\* failed validation.
C18_LookupMostRecentIdentity ==
    [][\A s \in SIDS :
          /\ connect(s) => Lookup(s)' = Placeholder
          /\ \A data \in RegPayloads :
                /\ (\E raised \in BOOLEAN : register_direct(s, data, raised))
                      => Lookup(s)' = PayloadIdentity(data)
                /\ register_evict(s, data)
                      => /\ pending'[s].identity = PayloadIdentity(data)
                         /\ Lookup(s)' = Lookup(s)
                /\ register_reject(s, data) => Lookup(s)' = Lookup(s)
          /\ register_resume(s) => Lookup(s)' = pending[s].identity
          /\ (/\ s \in sio_sids /\ s \in sio_sids'
              /\ ~register_resume(s)
              /\ ~(\E data \in RegPayloads, raised \in BOOLEAN :
                      register_direct(s, data, raised)))
                => Lookup(s)' = Lookup(s)]_vars

\* A live session has registered twice and looks up as its second
\* Identity, while a live session whose registration was rejected looks up
\* as the placeholder.
C18_Witness ==
    /\ printed = "register_failed"
    /\ \E s, t \in sio_sids :
          /\ s \in DOMAIN sid_to_identity
          /\ Cardinality({c \in DOMAIN character_to_sid : character_to_sid[c] = s}) = 2
          /\ Lookup(s).character_name = <<"Nyx2">>
          /\ lastEmit.to = {t}
          /\ Lookup(t) = Placeholder

HasNoDuplicates(l) == \A i, j \in 1..Len(l) : l[i] = l[j] => i = j

\* C19: every presence broadcast {users: N} emitted on connect or disconnect
\* (eviction included) carries N equal to the number of live sessions;
\* clients never holds a session twice and never a disconnected session.
C19_PresenceCountsLiveSessions ==
    /\ HasNoDuplicates(clients)
    /\ \A s \in Disconnected : ~InList(s, clients)
    /\ (lastEmit.event = server_chat_event /\ lastEmit.error = "none")
          => /\ lastEmit.users = Cardinality({s \in SIDS : InList(s, clients)})
             /\ lastEmit.users = Cardinality(sio_sids)

\* The presence broadcast of an eviction: a register is suspended, the
\* evicted session is gone and two sessions are left.
C19_Witness ==
    /\ lastEmit.event = server_chat_event
    /\ lastEmit.error = "none"
    /\ lastEmit.users = 2
    /\ DOMAIN pending # {}
    /\ Disconnected # {}

\* Sessions of the master server whose connection has been closed.
MasterDisconnected == {s \in SIDS : s < master_next /\ s \notin master_sids}

\* C20: in master-server.py every record of game_servers is owned by a
\* currently connected session; after the disconnect of an owning session
\* its record is gone from the registry and from the next get_servers
\* result.
C20_ServerRecordsOwnedByLiveSessions ==
    /\ \A i \in 1..Len(game_servers) :
          /\ game_servers[i].sid \in master_sids
          /\ game_servers[i].server_id = game_servers[i].sid
    /\ \A s \in MasterDisconnected : ~servers_has(game_servers, s)
    /\ master_emit.event = "available_servers"
          => \A i \in 1..Len(master_emit.servers) :
                master_emit.servers[i].server_id \in master_sids

\* An owning session has disconnected and lost its record; a later
\* get_servers lists the one server that is left.
C20_Witness ==
    /\ master_printed = "server_disconnected"
    /\ MasterDisconnected # {}
    /\ Len(game_servers) = 1
    /\ master_emit.event = "available_servers"
    /\ Len(master_emit.servers) = 1

\* C21: an update_server sent by session x that names the server_id of a
\* record owned by a different session leaves that record unchanged.
C21_UpdateOnlyByOwner ==
    [][\A x \in SIDS, data \in UpdatePayloads :
          update_server(x, data) =>
              /\ Len(game_servers') = Len(game_servers)
              /\ \A i \in 1..Len(game_servers) :
                    game_servers[i].sid # x => game_servers'[i] = game_servers[i]]_vars

\* The server_id an update_server payload names.
UpdateTarget(data) == get_default(data, "server_id", NoSid)

\* C22: update_server changes at most the current_players field of the
\* record keyed by server_id; for a server_id that is not in the registry
\* it reports not-found, raises nothing, creates no record and leaves the
\* registry as it was.  The handler never reads its caller's sid, so one
\* connected caller stands for all.
C22_UpdateTouchesOnlyCurrentPlayers ==
    [][\A data \in UpdatePayloads :
          (/\ master_sids' = master_sids
           /\ master_sids # {}
           /\ master_emit' = NoMasterEmit
           /\ update_server(CHOOSE x \in master_sids : TRUE, data)) =>
              /\ master_fault' = "none"
              /\ Len(game_servers') = Len(game_servers)
              /\ \A i \in 1..Len(game_servers) :
                    /\ game_servers'[i] =
                          [game_servers[i] EXCEPT
                              !.current_players = game_servers'[i].current_players]
                    /\ game_servers[i].server_id # UpdateTarget(data)
                          => game_servers'[i] = game_servers[i]
              /\ ~servers_has(game_servers, UpdateTarget(data))
                    => /\ game_servers' = game_servers
                       /\ master_printed' = "not_found"]_vars

\* update_server has just reported an unknown server_id while the registry
\* holds a record.
C22_Witness ==
    /\ master_printed = "not_found"
    /\ master_emit = NoMasterEmit
    /\ Len(game_servers) >= 1
    /\ \E i \in 1..Len(game_servers) : game_servers[i].current_players = 2

\* C23: register_server stores the record under the caller's session and
\* overwrites on re-registration, so the registry holds at most one record
\* per session; current_players of the stored record is 0 when the payload
\* omits it.
C23_OneRecordPerSession ==
    /\ \A i, j \in 1..Len(game_servers) :
          game_servers[i].sid = game_servers[j].sid => i = j
    /\ \A i \in 1..Len(game_servers) : game_servers[i].server_id = game_servers[i].sid

C23_RegisterStoresDescriptor ==
    [][\A s \in SIDS, data \in ServerPayloads :
          register_server(s, data) =>
              /\ servers_has(game_servers', s)
              /\ servers_get(game_servers', s).sid = s
              /\ servers_get(game_servers', s).current_players =
                    (IF "current_players" \in DOMAIN data THEN data.current_players ELSE 0)
              /\ Len(game_servers') =
                    (IF servers_has(game_servers, s)
                     THEN Len(game_servers) ELSE Len(game_servers) + 1)
              /\ \A i \in 1..Len(game_servers) :
                    game_servers[i].server_id # s => game_servers'[i] = game_servers[i]]_vars

\* C23 as one formula: the invariant and the post-condition of register_server.
C23_RegisterKeyedByOwner == []C23_OneRecordPerSession /\ C23_RegisterStoresDescriptor

\* register_server has just stored, for a session whose current_players was
\* omitted, a record with current_players 0 next to another session's record.
C23_Witness ==
    /\ master_emit.event = "server_registered"
    /\ Len(game_servers) = 2
    /\ \E i \in 1..2 :
          /\ game_servers[i].current_players = 0
          /\ game_servers[i].max_players = 1

\* The records of gs with a free slot, as get_servers is meant to list them.
FreeServers(gs) == SelectSeq(gs, LAMBDA rec : rec.current_players # None
                                              /\ rec.max_players # None
                                              /\ rec.current_players < rec.max_players)

\* C24: get_servers returns exactly the registered servers whose
\* current_players is below max_players at the time of the call.
C24_ListReturnsServersWithFreeSlot ==
    [][\A s \in SIDS :
          get_servers(s) =>
              /\ master_emit'.event = "available_servers"
              /\ master_emit'.to = {s}
              /\ Len(master_emit'.servers) = Len(FreeServers(game_servers))
              /\ \A i \in 1..Len(master_emit'.servers) :
                    master_emit'.servers[i].server_id
                        = FreeServers(game_servers)[i].server_id]_vars

\* C25: get_servers returns one descriptor for every record of the
\* registry, in insertion order, and does not modify the registry.
C25_ListReturnsEveryRecord ==
    [][\A s \in SIDS :
          get_servers(s) =>
              /\ game_servers' = game_servers
              /\ master_emit'.event = "available_servers"
              /\ Len(master_emit'.servers) = Len(game_servers)
              /\ \A i \in 1..Len(game_servers) :
                    master_emit'.servers[i].server_id = game_servers[i].server_id]_vars

\* C26: whatever payload one session has sent, a get_servers from a
\* session that owns no record completes with its normal response and
\* raises no fault.
C26_FaultsStayInTheirConnection ==
    [][\A s \in SIDS :
          (get_servers(s) /\ ~servers_has(game_servers, s)) =>
              /\ master_fault' = "none"
              /\ master_emit'.event = "available_servers"]_vars

C28_DisconnectKeepsOthersEntries ==
    [][\A s \in SIDS :
          disconnect(s) =>
              \A c \in DOMAIN character_to_sid :
                  (character_to_sid[c] # s /\ Live(character_to_sid[c]))
                      => /\ c \in DOMAIN character_to_sid'
                         /\ character_to_sid'[c] = character_to_sid[c]]_vars

\* C29: a private message addressed to character_id c is delivered only to
\* a session whose current registered Identity has character_id c.
C29_PrivateReachesOnlyCurrentHolder ==
    [][\A s \in SIDS, msg \in PrivatePayloads :
          (privatemsg(s, msg) /\ lastEmit'.error = "none") =>
              \A r \in lastEmit'.to :
                  /\ r \in DOMAIN sid_to_identity
                  /\ sid_to_identity[r].character_id = privatemsg_target(msg)]_vars

\* Some connected session of the relay is registered under user name u.
RelayRegisteredLive(u) ==
    \E t \in relay_sids : t \in DOMAIN sid_to_user /\ sid_to_user[t] = u

\* C30: in the chat.py relay a private message addressed to a user name
\* that no live session has registered is delivered to no session other
\* than the sender, who receives a not-online notice; the message is never
\* broadcast.
C30_RelayPrivateToUnknownUser ==
    [][\A s \in SIDS, msg \in RelayPrivatePayloads :
          (relay_privatemsg(s, msg) /\ ~RelayRegisteredLive(relay_privatemsg_receiver(msg)))
              => /\ relay_emit'.to = {s}
                 /\ relay_emit'.notice]_vars

\* C31: in WebsocketChat.py, for any sequence of connects and disconnects
\* (two connections under the same username included), every username
\* with an open connection is present in active_connections and maps to an
\* open connection, and no disconnect handler raises.
C31_OpenUsersAreListed ==
    /\ \A ws \in ws_open :
          /\ ws_username[ws] \in DOMAIN active_connections
          /\ active_connections[ws_username[ws]] \in ws_open
    /\ ws_fault # "KeyError"

\* Either of a and b blocks the other.
BlockBetween(a, b) == <<a, b>> \in character_blocks \/ <<b, a>> \in character_blocks

\* C32: in profiles_server.py, with the friend and block requests executed
\* one at a time, no pair of characters is in character_friends while
\* either blocks the other, and no friend request is pending between a pair
\* in which either blocks the other.
C32_NoFriendshipOrRequestAcrossBlock ==
    \A a, b \in Characters :
        BlockBetween(a, b)
            => /\ friends_key(a, b) \notin character_friends
               /\ <<a, b>> \notin character_friend_requests
               /\ <<b, a>> \notin character_friend_requests

\* A friend request has just been refused because of a block, while other
\* pairs are friends and have a request pending.
C32_Witness ==
    /\ profiles_response = "You are blocked by this character"
    /\ character_blocks # {}
    /\ character_friends # {}
    /\ character_friend_requests # {}
====
